---- MODULE Spec2Model ----
(***************************************************************************)
(* MachineLearningStocks: the fundamentals extractor (parse_html_file,     *)
(* parse_html), the price preprocessing and dataset assembly loop          *)
(* (preprocess_price_data, parse_keystats) and the backtest (backtest,     *)
(* calculate_returns), as three state machines over one set of variables.  *)
(*                                                                         *)
(* Numbers.  Prices are positive integers.  Percent changes are integers   *)
(* counting hundredths of a percentage point (the code rounds them to two  *)
(* decimals before storing them), so 10 percentage points is 1000.         *)
(* Floating point results of calculate_returns are exact fractions         *)
(* [num, den]; binary rounding error of the float arithmetic is not        *)
(* modelled.                                                               *)
(***************************************************************************)
EXTENDS Integers, Sequences, FiniteSets, TLC

\* ------------------------------------------------------------------------
\* Bounds of the model
\* ------------------------------------------------------------------------
\* longest snapshot text, in table cells
MaxCells == 4

\* the calendar: days 0..MaxDay
MaxDay == 3

\* the forward horizon in days (365 in the code) and the seconds of a day
HorizonDays == 1

SecondsPerDay == 2

\* most snapshot files in all ticker directories together
MaxSnapshots == 3

\* most rows of keystats.csv
MaxRows == 6

\* ------------------------------------------------------------------------
\* Fundamentals extractor: src/parsing_keystats.py, src/current_data.py
\* ------------------------------------------------------------------------
\* parsing_keystats.py: the list of features to parse from the html files
features ==
    << "Market Cap", "Enterprise Value", "Trailing P/E", "Forward P/E", "PEG Ratio",
       "Price/Sales", "Price/Book", "Enterprise Value/Revenue", "Enterprise Value/EBITDA",
       "Profit Margin", "Operating Margin", "Return on Assets", "Return on Equity",
       "Revenue", "Revenue Per Share", "Qtrly Revenue Growth", "Gross Profit",
       "EBITDA", "Net Income Avl to Common", "Diluted EPS", "Qtrly Earnings Growth",
       "Total Cash", "Total Cash Per Share", "Total Debt", "Total Debt/Equity",
       "Current Ratio", "Book Value Per Share", "Operating Cash Flow", "Levered Free Cash Flow",
       "Beta", "50-Day Moving Average", "200-Day Moving Average", "Avg Vol (3 month)",
       "Shares Outstanding", "Float", "% Held by Insiders", "% Held by Institutions",
       "Shares Short (as of", "Short Ratio", "Short % of Float", "Shares Short (prior month" >>

\* current_data.py: the features that will be parsed from the current pages
forward_features ==
    << "Market Cap", "Enterprise Value", "Trailing P/E", "Forward P/E", "PEG Ratio",
       "Price/Sales", "Price/Book", "Enterprise Value/Revenue", "Enterprise Value/EBITDA",
       "Profit Margin", "Operating Margin", "Return on Assets", "Return on Equity",
       "Revenue", "Revenue Per Share", "Quarterly Revenue Growth", "Gross Profit",
       "EBITDA", "Net Income Avi to Common", "Diluted EPS", "Quarterly Earnings Growth",
       "Total Cash", "Total Cash Per Share", "Total Debt", "Total Debt/Equity",
       "Current Ratio", "Book Value Per Share", "Operating Cash Flow", "Levered Free Cash Flow",
       "Beta", "50-Day Moving Average", "200-Day Moving Average", "Avg Vol (3 month)",
       "Shares Outstanding", "Float", "% Held by Insiders", "% Held by Institutions",
       "Shares Short", "Short Ratio", "Short % of Float", "Shares Short (prior month)" >>

\* The field with a historical rename and its alternate label.
AvgVol == "Avg Vol (3 month)"

AverageVolume == "Average Volume (3 month)"

\* A snapshot text is a sequence of table cells "<td>TEXT</td>".  A label
\* cell holds a field label; a value cell holds a token.  The label texts
\* the model draws documents from:
LabelTexts == { AvgVol, AverageVolume, "Revenue", "Revenue Per Share" }

\* ">" + re.escape(variable) matches wherever a cell text begins with
\* variable: the label itself and every label it is a proper prefix of.
ProperPrefix == { << "Revenue", "Revenue Per Share" >> }

StartsWith(text, variable) == text = variable \/ << variable, text >> \in ProperPrefix

LabelCell(text) == [k |-> "label", text |-> text, m |-> 0, suf |-> "", comma |-> FALSE]

ValueCell(kind, m, suf, comma) == [k |-> kind, text |-> "", m |-> m, suf |-> suf, comma |-> comma]

\* Value tokens: a number ("15"), a number with a thousands separator
\* and a K/M/B suffix ("1,234K"), "N/A", "NaN", a
\* bare "0" (which the pattern reads as ">0", the ">" closing the cell's
\* tag), a token the pattern accepts but that is no number ("1..5"), and a
\* token the pattern does not accept ("abc").
ValueCells ==
    { ValueCell("num", 15, "", FALSE), ValueCell("num", 1234, "K", TRUE),
      ValueCell("na", 0, "", FALSE), ValueCell("nan", 0, "", FALSE),
      ValueCell("gt0", 0, "", FALSE), ValueCell("bad", 0, "", FALSE),
      ValueCell("junk", 0, "", FALSE) }

Cells == { LabelCell(t) : t \in LabelTexts } \cup ValueCells

\* The texts of at most `most` cells, from the first label cell on: every
\* pattern begins at a label, so no search reaches what precedes the first
\* one.
Documents(most) ==
    { text \in UNION { [1..n -> Cells] : n \in 0..most } :
        Len(text) > 0 => text[1].k = "label" }

\* file.read().replace(",", ""): thousands separators are stripped from
\* the whole text once.  Unstripped, "1,234K</td>" offers the pattern only
\* the digits after the separator.
StripCommas(text) == [i \in 1..Len(text) |-> [text[i] EXCEPT !.comma = FALSE]]

NoMatch == ValueCell("nomatch", 0, "", FALSE)

\* The token group(1) takes in a value cell, if the cell ends in one.
Token(cell) ==
    IF cell.k = "num" /\ cell.comma THEN ValueCell("num", cell.m % 1000, cell.suf, FALSE)
    ELSE cell

\* (\-?\d+\.*\d*K?M?B?|N/A[\\n|\s]*|>0|NaN)%?(</td>|</span>) at the end of
\* a cell; the alternate pattern of parse_html_file has no NaN branch.
Accepts(cell, withNaN) ==
    \/ cell.k \in {"num", "na", "gt0", "bad"}
    \/ cell.k = "nan" /\ withNaN

Least(S) == CHOOSE x \in S : \A y \in S : x <= y

\* re.search(regex, source, flags=re.DOTALL): the leftmost cell beginning
\* with the anchor, then (.*? spans markup and newlines) the first cell
\* after it that ends in a value token.  NoMatch stands for None.
Search(anchor, text, withNaN) ==
    LET starts == { i \in 1..Len(text) : text[i].k = "label" /\ StartsWith(text[i].text, anchor) }
    IN  IF starts = {} THEN NoMatch
        ELSE LET hits == { j \in (Least(starts) + 1)..Len(text) : Accepts(text[j], withNaN) }
             IN  IF hits = {} THEN NoMatch ELSE Token(text[Least(hits)])

\* An entry of a feature vector: a number, or the string "N/A" the code
\* stores for Missing.
Missing == [na |-> TRUE, v |-> 0]

Number(x) == [na |-> FALSE, v |-> x]

Multiplier(suf) ==
    CASE suf = "K" -> 1000
      [] suf = "M" -> 1000000
      [] suf = "B" -> 1000000000
      [] OTHER -> 1

\* utils.data_string_to_float, the Value Normalizer: a magnitude suffix
\* multiplies the mantissa, "N/A" and "NaN" are Missing, ">0" is zero, and
\* a token that is no number is Missing; it never raises.
data_string_to_float(value) ==
    CASE value.k = "num" -> Number(value.m * Multiplier(value.suf))
      [] value.k = "gt0" -> Number(0)
      [] OTHER -> Missing

\* The body of the loop of parse_html_file for one variable: what it
\* appends to value_list.  A miss is re.search(...) returning None, whose
\* .group(1) raises AttributeError.
ExtractFieldNoAppend(source, variable) ==
    LET match == Search(variable, source, TRUE)
    IN  IF match # NoMatch THEN << data_string_to_float(match) >>
        ELSE IF variable = AvgVol
             THEN LET retry == Search(AverageVolume, source, FALSE)
                  IN  IF retry # NoMatch THEN << data_string_to_float(retry) >>
                      ELSE << >>
             ELSE << Missing >>

\* The rename is not known: a miss of the primary anchor is Missing for
\* every field.
ExtractFieldNoRetry(source, variable) ==
    LET match == Search(variable, source, TRUE)
    IN  IF match # NoMatch THEN << data_string_to_float(match) >>
        ELSE << Missing >>

ExtractField(source, variable) ==
    LET match == Search(variable, source, TRUE)
    IN  IF match # NoMatch THEN << data_string_to_float(match) >>
        ELSE IF variable = AvgVol
             THEN LET retry == Search(AverageVolume, source, FALSE)
                  IN  IF retry # NoMatch THEN << data_string_to_float(retry) >>
                      ELSE << Missing >>
             ELSE << Missing >>

RECURSIVE ExtractFrom(_, _, _)
ExtractFrom(source, fields, k) ==
    IF k > Len(fields) THEN << >>
    ELSE ExtractField(source, fields[k]) \o ExtractFrom(source, fields, k + 1)

AllMissing(fields) == [i \in 1..Len(fields) |-> Missing]

\* A miss aborts the whole loop and the handler of the outer try answers.
parse_html_file_abort(readable, raw, fields) ==
    IF ~readable THEN AllMissing(fields)
    ELSE IF \E k \in 1..Len(fields) : ExtractField(StripCommas(raw), fields[k]) = << Missing >>
         THEN AllMissing(fields)
         ELSE ExtractFrom(StripCommas(raw), fields, 1)

\* parse_html_file(file_path, features); readable = FALSE is open() or
\* read() raising, which the outer except answers.
parse_html_file(readable, raw, fields) ==
    IF ~readable THEN AllMissing(fields)
    ELSE ExtractFrom(StripCommas(raw), fields, 1)

\* The body of the loop of current_data.parse_html for one variable.
ForwardField(source, variable) ==
    LET match == Search(variable, source, TRUE)
    IN  data_string_to_float(IF match # NoMatch THEN match ELSE ValueCell("na", 0, "", FALSE))

\* current_data.parse_html(tickerfile)
parse_html(readable, raw) ==
    IF ~readable THEN AllMissing(forward_features)
    ELSE LET source == StripCommas(raw)
         IN  [i \in 1..Len(forward_features) |-> ForwardField(source, forward_features[i])]

\* ------------------------------------------------------------------------
\* Price preprocessing and dataset assembly: src/parsing_keystats.py
\* ------------------------------------------------------------------------
Days == 0..MaxDay

\* A float: a number, or NaN (what reindex puts where the frame had no row).
NaN == [nan |-> TRUE, v |-> 0]

Float(x) == [nan |-> FALSE, v |-> x]

\* The quotes the price files of the model hold: the price of a column on
\* a day.  Every day has its own price, so a filled value shows the day it
\* was carried from.
Quote(column, day) ==
    CASE column = "Adj Close" -> 100 + 5 * day
      [] column = "A" -> 30 + 7 * day
      [] OTHER -> 50 - 3 * day

\* A csv file: whether pd.read_csv reads it (ok), its columns, and for each
\* day whether the file has no row for it ("none"), a row ("row") or a row
\* with an empty cell ("nan").  Rows are in date order, as the download
\* wrote them.
CsvFiles(columnSets, most) ==
    { f \in [ok : BOOLEAN, columns : columnSets, cell : [Days -> {"none", "row", "nan"}]] :
        /\ Cardinality({ d \in Days : f.cell[d] = "nan" }) <= most
        /\ ~f.ok => \A d \in Days : f.cell[d] = "none" }

EmptyFrame == [index |-> {}, columns |-> {}, cell |-> << >>]

\* DataFrame.empty
IsEmpty(frame) == frame.index = {} \/ frame.columns = {}

\* parsing_keystats.load_data(file_path): read_csv with Date as the index,
\* dropna(axis=0, how="any"); an empty frame on any exception.
load_data(file) ==
    IF ~file.ok THEN EmptyFrame
    ELSE [index |-> { d \in Days : file.cell[d] = "row" },
          columns |-> file.columns,
          cell |-> [c \in file.columns |->
                      [d \in { d \in Days : file.cell[d] = "row" } |-> Float(Quote(c, d))]]]

Greatest(S) == CHOOSE x \in S : \A y \in S : y <= x

\* df.reindex(pd.date_range(start_date, end_date)); df.ffill(): every day
\* of the range becomes a row, NaN where df had none, and then each NaN
\* takes the last value above it in the new frame, if there is one.
reindex_and_fill(df, start_date, end_date) ==
    LET idx == start_date..end_date
        kept == df.index \cap idx
        fill(c, d) ==
            LET above == { e \in kept : e <= d }
            IN  IF above = {} THEN NaN ELSE df.cell[c][Greatest(above)]
    IN  [index |-> idx, columns |-> df.columns,
         cell |-> [c \in df.columns |-> [d \in idx |-> fill(c, d)]]]

\* preprocess_price_data(), given the two files: << sp500_df, stock_df >>.
preprocess_price_data(sp500_csv, stock_csv) ==
    LET sp500 == load_data(sp500_csv)
        stock == load_data(stock_csv)
    IN  IF IsEmpty(sp500) \/ IsEmpty(stock) THEN << EmptyFrame, EmptyFrame >>
        ELSE LET start_date == Least(stock.index)
                 end_date == Greatest(stock.index)
             IN  << reindex_and_fill(sp500, start_date, end_date),
                    reindex_and_fill(stock, start_date, end_date) >>

\* time.mktime(date_stamp.timetuple()) for the stamp in a file name, in a
\* time zone whose offset does not change.
mktime(stamp) == stamp.day * SecondsPerDay + stamp.sec

\* datetime.fromtimestamp(t).strftime("%Y-%m-%d")
DateOf(t) == t \div SecondsPerDay

\* 31536000 seconds, 365 days
HorizonSeconds == HorizonDays * SecondsPerDay

\* round(x, 2) of x = 100 * (later - now) / now, in hundredths: the
\* nearest hundredth, a tie to the even one.
PercentChange(later, now) ==
    IF later.nan \/ now.nan THEN NaN
    ELSE LET n == (later.v - now.v) * 10000
             q == n \div now.v
             r == n - q * now.v
         IN  Float(IF 2 * r < now.v THEN q
                   ELSE IF 2 * r > now.v THEN q + 1
                   ELSE IF q % 2 = 0 THEN q ELSE q + 1)

\* ticker.upper()
Upper(ticker) == IF ticker = "a" THEN "A" ELSE IF ticker = "b" THEN "B" ELSE ticker

\* df.loc[date, column] raises KeyError
KeyError(frame, date, column) == date \notin frame.index \/ column \notin frame.columns

\* The text of every snapshot file of the model.
SnapshotText == << LabelCell("Revenue"), ValueCell("num", 15, "", FALSE) >>

\* The row of one snapshot, in the column order of df_columns.
NewRow(stamp, ticker, stock_price, stock_p_change, sp500_price, sp500_p_change, values) ==
    [Date |-> stamp, Unix |-> mktime(stamp), Ticker |-> ticker,
     Price |-> stock_price, stock_p_change |-> stock_p_change,
     SP500 |-> sp500_price, SP500_p_change |-> sp500_p_change,
     values |-> values]

\* One pass of the loop over the files of a ticker: the rows it adds to df,
\* none when a lookup raises KeyError and the loop continues.
SnapshotRowsUnchecked(sp500_df, stock_df, ticker, stamp) ==
    LET current_date == DateOf(mktime(stamp))
        one_year_later == DateOf(mktime(stamp) + HorizonSeconds)
        value_list == parse_html_file(TRUE, SnapshotText, features)
        at(frame, date, column) ==
            IF KeyError(frame, date, column) THEN NaN ELSE frame.cell[column][date]
    IN  IF KeyError(sp500_df, current_date, "Adj Close") THEN << >>
        ELSE IF KeyError(stock_df, current_date, Upper(ticker)) THEN << >>
        ELSE << NewRow(stamp, ticker,
                       at(stock_df, current_date, Upper(ticker)),
                       PercentChange(at(stock_df, one_year_later, Upper(ticker)),
                                     at(stock_df, current_date, Upper(ticker))),
                       at(sp500_df, current_date, "Adj Close"),
                       PercentChange(at(sp500_df, one_year_later, "Adj Close"),
                                     at(sp500_df, current_date, "Adj Close")),
                       value_list) >>

SnapshotRows(sp500_df, stock_df, ticker, stamp) ==
    LET current_date == DateOf(mktime(stamp))
        one_year_later == DateOf(mktime(stamp) + HorizonSeconds)
        value_list == parse_html_file(TRUE, SnapshotText, features)
    IN  IF \/ KeyError(sp500_df, current_date, "Adj Close")
           \/ KeyError(sp500_df, one_year_later, "Adj Close")
        THEN << >>
        ELSE IF \/ KeyError(stock_df, current_date, Upper(ticker))
                \/ KeyError(stock_df, one_year_later, Upper(ticker))
        THEN << >>
        ELSE << NewRow(stamp, ticker,
                       stock_df.cell[Upper(ticker)][current_date],
                       PercentChange(stock_df.cell[Upper(ticker)][one_year_later],
                                     stock_df.cell[Upper(ticker)][current_date]),
                       sp500_df.cell["Adj Close"][current_date],
                       PercentChange(sp500_df.cell["Adj Close"][one_year_later],
                                     sp500_df.cell["Adj Close"][current_date]),
                       value_list) >>

\* The loop over keystats_html_files of one ticker directory, from file k.
RECURSIVE TickerRows(_, _, _, _, _)
TickerRows(sp500_df, stock_df, ticker, files, k) ==
    IF k > Len(files) THEN << >>
    ELSE SnapshotRows(sp500_df, stock_df, ticker, files[k])
           \o TickerRows(sp500_df, stock_df, ticker, files, k + 1)

\* The loop over stock_list, from directory k.
RECURSIVE KeystatsRows(_, _, _, _)
KeystatsRows(sp500_df, stock_df, stock_list, k) ==
    IF k > Len(stock_list) THEN << >>
    ELSE TickerRows(sp500_df, stock_df, stock_list[k].ticker, stock_list[k].files, 1)
           \o KeystatsRows(sp500_df, stock_df, stock_list, k + 1)

\* The same loops, the files of a directory taken latest first.
RECURSIVE TickerRowsReversed(_, _, _, _, _)
TickerRowsReversed(sp500_df, stock_df, ticker, files, k) ==
    IF k > Len(files) THEN << >>
    ELSE TickerRowsReversed(sp500_df, stock_df, ticker, files, k + 1)
           \o SnapshotRows(sp500_df, stock_df, ticker, files[k])

RECURSIVE KeystatsRowsReversed(_, _, _, _)
KeystatsRowsReversed(sp500_df, stock_df, stock_list, k) ==
    IF k > Len(stock_list) THEN << >>
    ELSE TickerRowsReversed(sp500_df, stock_df, stock_list[k].ticker, stock_list[k].files, 1)
           \o KeystatsRowsReversed(sp500_df, stock_df, stock_list, k + 1)

parse_keystats_reversed(sp500_df, stock_df, stock_list) ==
    KeystatsRowsReversed(sp500_df, stock_df, stock_list, 1)

\* parse_keystats(sp500_df, stock_df): stock_list is what os.walk(statspath)
\* lists, each directory with what os.listdir lists in it.
parse_keystats(sp500_df, stock_df, stock_list) ==
    KeystatsRows(sp500_df, stock_df, stock_list, 1)

\* The directory listings of the model.  os.walk and os.listdir list in
\* the order the file system keeps, which no rule ties to names or dates.
Tickers == {"a", "b"}

Stamps(secs) == [day : Days, sec : secs]

\* The lists of at most n distinct file names, and those of exactly n.
FileLists(n, stamps) ==
    { fs \in UNION { [1..m -> stamps] : m \in 0..n } :
        \A i, j \in 1..Len(fs) : i # j => fs[i] # fs[j] }

FileListsOf(n, stamps) == { fs \in FileLists(n, stamps) : Len(fs) = n }

Directory(ticker, files) == [ticker |-> ticker, files |-> files]

\* One ticker directory holding at most n files.
OneDirectory(n, stamps) == { << Directory(t, fs) >> : t \in Tickers, fs \in FileLists(n, stamps) }

\* No, one or two ticker directories holding at most n files together.
Listings(n, stamps) ==
    { << >> }
    \cup OneDirectory(n, stamps)
    \cup UNION { { << Directory(t[1], f1), Directory(t[2], f2) >> :
                     f1 \in FileListsOf(k[1], stamps), f2 \in FileListsOf(k[2], stamps) } :
                 t \in { p \in Tickers \X Tickers : p[1] # p[2] },
                 k \in { q \in (0..n) \X (0..n) : q[1] + q[2] <= n } }

\* Price files with a row for every day, but possibly the first.
FullFiles(columns) ==
    { f \in CsvFiles({columns}, 0) : f.ok /\ \A d \in Days : d > 0 => f.cell[d] = "row" }

\* ------------------------------------------------------------------------
\* Backtest and training set: src/backtesting.py, src/stock_prediction.py
\* ------------------------------------------------------------------------
\* The rows keystats.csv is made of in the model: stock_p_change and
\* SP500_p_change in hundredths of a point, and whether every cell of the
\* row is filled.
KeystatsRow(stock, sp500, complete) ==
    [stock_p_change |-> stock, SP500_p_change |-> sp500, complete |-> complete]

RowKinds ==
    << KeystatsRow(1000, 200, TRUE), KeystatsRow(400, 100, TRUE),
       KeystatsRow(2000, 500, TRUE), KeystatsRow(1200, 500, TRUE),
       KeystatsRow(1500, 500, TRUE), KeystatsRow(-300, 100, FALSE) >>

\* keystats.csv: unreadable, or up to MaxRows rows.  The backtest does not
\* read the order of the rows, so the files list their rows kind by kind.
KeystatsFiles ==
    { [ok |-> FALSE, rows |-> << >>] }
    \cup { [ok |-> TRUE, rows |-> [i \in 1..Len(ks) |-> RowKinds[ks[i]]]] :
             ks \in { f \in UNION { [1..n -> 1..Len(RowKinds)] : n \in 0..MaxRows } :
                        \A i \in 1..(Len(f) - 1) : f[i] <= f[i + 1] } }

\* parse_keystats: the columns of the dataset it assembles
df_columns ==
    << "Date", "Unix", "Ticker", "Price", "stock_p_change", "SP500", "SP500_p_change" >>
    \o features

\* The header row of keystats.csv.  The save of the dataset is not in the
\* source: the file has the columns of df_columns, after a first column
\* for the frame's index if to_csv wrote it too; read_csv names a column
\* without a name "Unnamed: 0".
KeystatsHeaders == { df_columns, << "Unnamed: 0" >> \o df_columns }

\* The columns of pd.read_csv(file_path): every column of the header.
read_csv_columns_no_index(header, index_col) == header

\* The columns of pd.read_csv(file_path, index_col="Date"): the index is
\* no column of the frame.
read_csv_columns(header, index_col) == SelectSeq(header, LAMBDA c : c # index_col)

\* data_df.columns of load_data(file_path); dropna(axis=0) drops rows only,
\* and the frame of the except branch has no columns.
bt_load_columns(file, header) ==
    IF ~file.ok THEN << >> ELSE read_csv_columns(header, "Date")

\* features = data_df.columns[6:]
FirstFeature == 6

feature_columns(columns) == SubSeq(columns, FirstFeature + 1, Len(columns))

\* backtesting.load_data / stock_prediction.load_data: read_csv with Date
\* as the index, dropna(axis=0, how="any"); an empty frame on any exception.
bt_load_data(file) ==
    IF ~file.ok THEN << >>
    ELSE SelectSeq(file.rows, LAMBDA r : r.complete)

\* utils.status_calc(stock, sp500, outperformance)
status_calc(stock, sp500, outperformance) == stock - sp500 >= outperformance

\* A number of percentage points in the hundredths the model counts in.
Points(x) == 100 * x

\* The percentage by which a stock has to beat the S&P500 to be a 'buy':
\* int(os.getenv("OUTPERFORMANCE", 10))
OUTPERFORMANCE == 10

\* y of split_data(data_df): status_calc(..., outperformance=10)
split_data_y_swapped(data_df) ==
    [i \in 1..Len(data_df) |->
        status_calc(data_df[i].SP500_p_change, data_df[i].stock_p_change, Points(10))]

split_data_y(data_df) ==
    [i \in 1..Len(data_df) |->
        status_calc(data_df[i].stock_p_change, data_df[i].SP500_p_change, Points(10))]

\* y_train of build_data_set(): status_calc(..., OUTPERFORMANCE)
build_data_set_y(training_data) ==
    [i \in 1..Len(training_data) |->
        status_calc(training_data[i].stock_p_change, training_data[i].SP500_p_change,
                    Points(OUTPERFORMANCE))]

\* test_size=0.2 of split_data, as TestSizeNum / TestSizeDen
TestSizeNum == 1

TestSizeDen == 5

\* train_test_split: n_test = ceil(test_size * n_samples)
NTest(n) == (TestSizeNum * n + TestSizeDen - 1) \div TestSizeDen

\* An exact fraction num / den, den > 0.
Frac(num, den) == [num |-> num, den |-> den]

FracSub(a, b) == Frac(a.num * b.den - b.num * a.den, a.den * b.den)

RECURSIVE SumOver(_, _)
SumOver(S, f) ==
    IF S = {} THEN 0
    ELSE LET i == CHOOSE x \in S : TRUE IN f[i] + SumOver(S \ {i}, f)

\* calculate_returns(y_pred, z_test): the tuple it returns.  z_test[i] is
\* << stock_p_change, SP500_p_change >> of held-out row i.  A growth
\* 1 + p / 100 of p = c / 100 percent is (10000 + c) / 10000.
calculate_returns_all_rows(y_pred, z_test) ==
    LET picked == { i \in 1..Len(y_pred) : y_pred[i] }
        every == 1..Len(y_pred)
        n == Len(y_pred)
        num_positive_predictions == Cardinality(picked)
    IN  IF num_positive_predictions <= 0
        THEN << Frac(0, 1), Frac(0, 1), Frac(0, 1) >>
        ELSE LET stock_returns == [i \in every |-> 10000 + z_test[i][1]]
                 market_returns == [i \in every |-> 10000 + z_test[i][2]]
                 percentage_stock_returns ==
                     Frac(SumOver(every, stock_returns) - 10000 * n, 100 * n)
                 percentage_market_returns ==
                     Frac(SumOver(every, market_returns) - 10000 * n, 100 * n)
             IN  << Frac(num_positive_predictions, 1),
                    percentage_stock_returns, percentage_market_returns,
                    FracSub(percentage_stock_returns, percentage_market_returns) >>

calculate_returns(y_pred, z_test) ==
    LET picked == { i \in 1..Len(y_pred) : y_pred[i] }
        num_positive_predictions == Cardinality(picked)
    IN  IF num_positive_predictions <= 0
        THEN << Frac(0, 1), Frac(0, 1), Frac(0, 1) >>
        ELSE LET stock_returns == [i \in picked |-> 10000 + z_test[i][1]]
                 market_returns == [i \in picked |-> 10000 + z_test[i][2]]
                 \* sum(...) / num_positive_predictions, then 100 * (avg - 1)
                 percentage_stock_returns ==
                     Frac(SumOver(picked, stock_returns) - 10000 * num_positive_predictions,
                          100 * num_positive_predictions)
                 percentage_market_returns ==
                     Frac(SumOver(picked, market_returns) - 10000 * num_positive_predictions,
                          100 * num_positive_predictions)
             IN  << Frac(num_positive_predictions, 1),
                    percentage_stock_returns, percentage_market_returns,
                    FracSub(percentage_stock_returns, percentage_market_returns) >>

\* sklearn precision_score(y_test, y_pred): true positives over predicted
\* positives, 0 (and a warning) when nothing is predicted positive.
precision_score(y_test, y_pred) ==
    LET picked == { i \in 1..Len(y_pred) : y_pred[i] }
    IN  IF picked = {} THEN Frac(0, 1)
        ELSE Frac(Cardinality({ i \in picked : y_test[i] }), Cardinality(picked))

\* clf.score(X_test, y_test): the share of correct predictions
accuracy_score(y_test, y_pred) ==
    Frac(Cardinality({ i \in 1..Len(y_pred) : y_pred[i] = y_test[i] }), Len(y_pred))

NoReport ==
    [num_positive_predictions |-> Frac(0, 1), percentage_stock_returns |-> Frac(0, 1),
     percentage_market_returns |-> Frac(0, 1), total_outperformance |-> Frac(0, 1)]

\* The values of f at the indexes of S, in ascending order of index.
RECURSIVE Pick(_, _)
Pick(S, f) ==
    IF S = {} THEN << >>
    ELSE << f[Least(S)] >> \o Pick(S \ {Least(S)}, f)

\* z of split_data: data_df[["stock_p_change", "SP500_p_change"]]
split_data_z(data_df) ==
    [i \in 1..Len(data_df) |-> << data_df[i].stock_p_change, data_df[i].SP500_p_change >>]

VARIABLES
    script,         \* the script of the repository that is run
    readable,       \* extractor input: whether open()/read() of the file succeeds
    raw_text,       \* extractor input: the text of the file
    value_list,     \* what the extractor returned
    epc,            \* "start", or the extractor that has run
    sp500_csv,      \* sp500_index.csv
    stock_csv,      \* stock_prices.csv
    listing,        \* the ticker directories under statspath and their files
    sp500_df,       \* the frames preprocess_price_data returned
    stock_df,
    df,             \* the dataset parse_keystats assembled
    apc,            \* "start", "preprocessed", "parsed"
    keystats_csv,   \* keystats.csv
    keystats_header, \* its header row
    data_df,        \* what load_data returned
    data_df_columns, \* data_df.columns
    X_columns,      \* the columns of the feature matrix X / X_train
    y_train,        \* the labels of the training rows
    y_test,         \* the labels of the held-out rows
    z_test,         \* the realized returns of the held-out rows
    clf,            \* the fitted classifier: the classes it has seen
    y_pred,         \* its predictions for the held-out rows
    scores,         \* accuracy and precision
    report,         \* what backtest() unpacked from calculate_returns
    calls,          \* the functions backtest() / build_data_set() have called
    bpc             \* where backtest() / build_data_set() stands

evars == << readable, raw_text, value_list, epc >>

avars == << sp500_csv, stock_csv, listing, sp500_df, stock_df, df, apc >>

bvars == << keystats_csv, keystats_header, data_df, data_df_columns, X_columns, y_train, y_test, z_test, clf, y_pred, scores, report,
            calls, bpc >>

vars == << script, evars, avars, bvars >>

NoCsv == [ok |-> FALSE, columns |-> {}, cell |-> [d \in Days |-> "none"]]

EIdle ==
    /\ readable = FALSE
    /\ raw_text = << >>
    /\ value_list = << >>
    /\ epc = "idle"

AIdle ==
    /\ sp500_csv = NoCsv
    /\ stock_csv = NoCsv
    /\ listing = << >>
    /\ sp500_df = EmptyFrame
    /\ stock_df = EmptyFrame
    /\ df = << >>
    /\ apc = "idle"

BIdle ==
    /\ keystats_csv = [ok |-> FALSE, rows |-> << >>]
    /\ keystats_header = << >>
    /\ data_df = << >>
    /\ data_df_columns = << >>
    /\ X_columns = << >>
    /\ y_train = << >>
    /\ y_test = << >>
    /\ z_test = << >>
    /\ clf = {}
    /\ y_pred = << >>
    /\ scores = [accuracy |-> Frac(0, 1), precision |-> Frac(0, 1)]
    /\ report = NoReport
    /\ calls = << >>
    /\ bpc = "idle"

\* The extractor of parsing_keystats.py on one snapshot file, or the one
\* of current_data.py on one downloaded page (of one cell less).
EInit ==
    /\ \/ script = "parse_html_file" /\ readable = TRUE /\ raw_text \in Documents(MaxCells)
       \/ script = "parse_html" /\ readable = TRUE /\ raw_text \in Documents(MaxCells - 1)
       \/ script \in {"parse_html_file", "parse_html"} /\ readable = FALSE /\ raw_text = << >>
    /\ value_list = << >>
    /\ epc = "start"
    /\ AIdle
    /\ BIdle

ParseHtmlFile ==
    /\ script = "parse_html_file"
    /\ epc = "start"
    /\ value_list' = parse_html_file(readable, raw_text, features)
    /\ epc' = "parse_html_file"
    /\ UNCHANGED << script, readable, raw_text, avars, bvars >>

ParseHtml ==
    /\ script = "parse_html"
    /\ epc = "start"
    /\ value_list' = parse_html(readable, raw_text)
    /\ epc' = "parse_html"
    /\ UNCHANGED << script, readable, raw_text, avars, bvars >>

\* parsing_keystats.py run as a script: any two price files and one ticker
\* directory of at most one snapshot file, or full price files and up to
\* MaxSnapshots files in up to two directories.
AInit ==
    /\ script = "parsing_keystats"
    /\ \/ /\ sp500_csv \in CsvFiles({{"Adj Close"}}, 0)
          /\ stock_csv \in CsvFiles({{"A"}}, 1)
          /\ listing \in OneDirectory(1, Stamps({0, SecondsPerDay - 1}))
       \/ /\ sp500_csv \in FullFiles({"Adj Close"})
          /\ stock_csv \in FullFiles({"A", "B"})
          /\ listing \in Listings(MaxSnapshots, Stamps({0}))
    /\ sp500_df = EmptyFrame
    /\ stock_df = EmptyFrame
    /\ df = << >>
    /\ apc = "start"
    /\ EIdle
    /\ BIdle

PreprocessPriceData ==
    /\ apc = "start"
    /\ sp500_df' = preprocess_price_data(sp500_csv, stock_csv)[1]
    /\ stock_df' = preprocess_price_data(sp500_csv, stock_csv)[2]
    /\ apc' = "preprocessed"
    /\ UNCHANGED << script, evars, bvars, sp500_csv, stock_csv, listing, df >>

ParseKeystats ==
    /\ apc = "preprocessed"
    /\ df' = parse_keystats(sp500_df, stock_df, listing)
    /\ apc' = "parsed"
    /\ UNCHANGED << script, evars, bvars, sp500_csv, stock_csv, listing, sp500_df, stock_df >>

\* backtesting.py or stock_prediction.py run as a script.
BInit ==
    /\ script \in {"backtesting", "stock_prediction"}
    /\ keystats_csv \in KeystatsFiles
    /\ keystats_header \in IF keystats_csv.ok THEN KeystatsHeaders ELSE { << >> }
    /\ data_df = << >>
    /\ data_df_columns = << >>
    /\ X_columns = << >>
    /\ y_train = << >>
    /\ y_test = << >>
    /\ z_test = << >>
    /\ clf = {}
    /\ y_pred = << >>
    /\ scores = [accuracy |-> Frac(0, 1), precision |-> Frac(0, 1)]
    /\ report = NoReport
    /\ calls = << >>
    /\ bpc = "start"
    /\ EIdle
    /\ AIdle

\* Where backtest() stands once load_data has returned data_df.
AfterLoadNoExit(loaded) == "loaded"

AfterLoad(loaded) == IF loaded = << >> THEN "returned" ELSE "loaded"

\* backtest(): data_df = load_data("keystats.csv"); return if it is empty.
BacktestLoad ==
    /\ script = "backtesting"
    /\ bpc = "start"
    /\ data_df' = bt_load_data(keystats_csv)
    /\ data_df_columns' = bt_load_columns(keystats_csv, keystats_header)
    /\ calls' = Append(calls, "load_data")
    /\ bpc' = AfterLoad(bt_load_data(keystats_csv))
    /\ UNCHANGED << script, evars, avars, keystats_csv, keystats_header, X_columns,
                    y_train, y_test, z_test, clf, y_pred,
                    scores, report >>

\* split_data(data_df): train_test_split(X, y, z, test_size, random_state=0)
\* holds out NTest(n) rows, which ones the shuffle of the seed decides; it
\* raises ValueError when no row is left to train on.
SplitData ==
    /\ bpc = "loaded"
    /\ calls' = Append(calls, "split_data")
    /\ X_columns' = feature_columns(data_df_columns)
    /\ IF Len(data_df) - NTest(Len(data_df)) = 0
       THEN /\ bpc' = "crashed"
            /\ UNCHANGED << y_train, y_test, z_test >>
       ELSE \E held \in SUBSET (1..Len(data_df)) :
               /\ Cardinality(held) = NTest(Len(data_df))
               /\ y_train' = Pick((1..Len(data_df)) \ held, split_data_y(data_df))
               /\ y_test' = Pick(held, split_data_y(data_df))
               /\ z_test' = Pick(held, split_data_z(data_df))
               /\ bpc' = "split"
    /\ UNCHANGED << script, evars, avars, keystats_csv, keystats_header, data_df,
                    data_df_columns, clf, y_pred, scores, report >>

\* train_model(X_train, y_train): the forest knows the classes of y_train.
TrainModel ==
    /\ bpc = "split"
    /\ calls' = Append(calls, "train_model")
    /\ clf' = { y_train[i] : i \in 1..Len(y_train) }
    /\ bpc' = "trained"
    /\ UNCHANGED << script, evars, avars, keystats_csv, keystats_header, data_df,
                    data_df_columns, X_columns, y_train, y_test, z_test,
                    y_pred, scores, report >>

\* evaluate_model(clf, X_test, y_test): the forest predicts, for each
\* held-out row, one of the classes it has seen.
EvaluateModel ==
    /\ bpc = "trained"
    /\ calls' = Append(calls, "evaluate_model")
    /\ \E predicted \in [1..Len(y_test) -> clf] :
          /\ y_pred' = predicted
          /\ scores' = [accuracy |-> accuracy_score(y_test, predicted),
                        precision |-> precision_score(y_test, predicted)]
    /\ bpc' = "evaluated"
    /\ UNCHANGED << script, evars, avars, keystats_csv, keystats_header, data_df,
                    data_df_columns, X_columns, y_train, y_test, z_test,
                    clf, report >>

\* backtest(): the four names on the left of calculate_returns(y_pred,
\* z_test) are unpacked from the tuple it returns; a tuple of another
\* length raises ValueError.
ReportReturns ==
    /\ bpc = "evaluated"
    /\ calls' = Append(calls, "calculate_returns")
    /\ LET returned == calculate_returns(y_pred, z_test)
       IN  IF Len(returned) = 4
           THEN /\ report' = [num_positive_predictions |-> returned[1],
                              percentage_stock_returns |-> returned[2],
                              percentage_market_returns |-> returned[3],
                              total_outperformance |-> returned[4]]
                /\ bpc' = "done"
           ELSE /\ report' = report
                /\ bpc' = "crashed"
    /\ UNCHANGED << script, evars, avars, keystats_csv, keystats_header, data_df,
                    data_df_columns, X_columns, y_train, y_test, z_test,
                    clf, y_pred, scores >>

\* stock_prediction.build_data_set(): (None, None) if the data is empty,
\* else X_train and y_train of all rows.
BuildDataSet ==
    /\ script = "stock_prediction"
    /\ bpc = "start"
    /\ data_df' = bt_load_data(keystats_csv)
    /\ data_df_columns' = bt_load_columns(keystats_csv, keystats_header)
    /\ calls' = Append(calls, "load_data")
    /\ IF bt_load_data(keystats_csv) = << >>
       THEN /\ X_columns' = << >>
            /\ y_train' = << >>
            /\ bpc' = "returned"
       ELSE /\ X_columns' = feature_columns(bt_load_columns(keystats_csv, keystats_header))
            /\ y_train' = build_data_set_y(bt_load_data(keystats_csv))
            /\ bpc' = "built"
    /\ UNCHANGED << script, evars, avars, keystats_csv, keystats_header, y_test, z_test, clf, y_pred,
                    scores, report >>

Init == EInit \/ AInit \/ BInit

Next ==
    \/ ParseHtmlFile \/ ParseHtml
    \/ PreprocessPriceData \/ ParseKeystats
    \/ BacktestLoad \/ SplitData \/ TrainModel \/ EvaluateModel \/ ReportReturns
    \/ BuildDataSet

Spec == Init /\ [][Next]_vars

\* ------------------------------------------------------------------------
\* Claims
\* ------------------------------------------------------------------------
\* The range both frames cover once preprocess_price_data has filled them.
Covered == stock_df.index

\* The snapshots of the listing in the order the loops visit them.
RECURSIVE Visited(_, _)
Visited(stock_list, k) ==
    IF k > Len(stock_list) THEN << >>
    ELSE [i \in 1..Len(stock_list[k].files) |->
             [ticker |-> stock_list[k].ticker, stamp |-> stock_list[k].files[i]]]
         \o Visited(stock_list, k + 1)

HasRow(ticker, stamp) ==
    \E i \in 1..Len(df) : df[i].Ticker = ticker /\ df[i].Date = stamp

\* C1: the assembled dataset holds a row only where the ticker's and the
\* benchmark's price are actual prices at the snapshot date and at the
\* snapshot date plus the horizon: no row has a missing price or a missing
\* percent change.
C1_NoRowWithMissingPrice ==
    apc = "parsed" =>
        \A i \in 1..Len(df) :
            /\ ~df[i].Price.nan /\ ~df[i].stock_p_change.nan
            /\ ~df[i].SP500.nan /\ ~df[i].SP500_p_change.nan

\* C5: in the frames preprocess_price_data returns, every day of the
\* covered range resolves, for the ticker and for the benchmark, to the
\* price of the most recent row of the file on or before that day, and a
\* lookup raises only outside the covered range.
C5_LookupInRangeResolves ==
    (apc \in {"preprocessed", "parsed"} /\ ~IsEmpty(stock_df)) =>
        \A d \in Days :
            /\ d \notin Covered => KeyError(sp500_df, d, "Adj Close") /\ KeyError(stock_df, d, "A")
            /\ d \in Covered =>
                 \A frame \in { << sp500_df, load_data(sp500_csv) >>,
                                << stock_df, load_data(stock_csv) >> } :
                    \A c \in frame[1].columns :
                        LET earlier == { e \in frame[2].index : e <= d }
                        IN  /\ ~KeyError(frame[1], d, c)
                            /\ ~frame[1].cell[c][d].nan
                            /\ earlier # {}
                            /\ frame[1].cell[c][d] = frame[2].cell[c][Greatest(earlier)]

\* C6: a snapshot dated within [start, end - horizon] of the covered range,
\* of a ticker the price file has a column for, gets a row; a snapshot
\* dated within the covered range but less than the horizon before its end
\* gets none.
C6_RowIffHorizonInRange ==
    (apc = "parsed" /\ ~IsEmpty(stock_df)) =>
        \A k \in 1..Len(listing) : \A j \in 1..Len(listing[k].files) :
            LET ticker == listing[k].ticker
                stamp == listing[k].files[j]
                series_start == Least(Covered)
                series_end == Greatest(Covered)
            IN  /\ ( /\ series_start <= stamp.day
                     /\ stamp.day <= series_end - HorizonDays
                     /\ Upper(ticker) \in stock_df.columns ) => HasRow(ticker, stamp)
                /\ ( /\ stamp.day <= series_end
                     /\ stamp.day + HorizonDays > series_end ) => ~HasRow(ticker, stamp)

\* C6 witness: a snapshot of the last day that still has its horizon inside
\* the range got a row, and a later snapshot got none.
C6_Witness ==
    /\ apc = "parsed"
    /\ ~IsEmpty(stock_df)
    /\ \E i \in 1..Len(df) :
          /\ df[i].Date.day = Greatest(Covered) - HorizonDays
          /\ ~df[i].SP500_p_change.nan
    /\ \E k \in 1..Len(listing) : \E j \in 1..Len(listing[k].files) :
          /\ listing[k].files[j].day > Greatest(Covered) - HorizonDays
          /\ ~HasRow(listing[k].ticker, listing[k].files[j])

\* The place of a row's snapshot in the order the loops visit them.
Place(row) ==
    CHOOSE p \in 1..Len(Visited(listing, 1)) :
        Visited(listing, 1)[p] = [ticker |-> row.Ticker, stamp |-> row.Date]

RowsContiguousByTicker ==
    \A i, j, k \in 1..Len(df) :
        (i < j /\ j < k /\ df[i].Ticker = df[k].Ticker) => df[j].Ticker = df[i].Ticker

RowsInVisitOrder ==
    /\ \A i \in 1..Len(df) :
          \E p \in 1..Len(Visited(listing, 1)) :
              Visited(listing, 1)[p] = [ticker |-> df[i].Ticker, stamp |-> df[i].Date]
    /\ \A i, j \in 1..Len(df) : i < j => Place(df[i]) < Place(df[j])

RowsAscendingByDate ==
    \A i, j \in 1..Len(df) :
        (i < j /\ df[i].Ticker = df[j].Ticker) => df[i].Unix <= df[j].Unix

\* C9 as stated: the rows of a ticker are contiguous, the rows keep the
\* order in which the snapshots were visited, and within a ticker they are
\* in ascending snapshot date.
C9_AscendingWithinTicker ==
    apc = "parsed" => RowsContiguousByTicker /\ RowsInVisitOrder /\ RowsAscendingByDate

\* C9 amended: the rows of a ticker are contiguous and the rows keep the
\* order in which the directory listings gave the snapshots (tickers in
\* the order of os.walk, files in the order of os.listdir), whatever
\* snapshots were dropped.
C9_RowsInListingOrder ==
    apc = "parsed" => RowsContiguousByTicker /\ RowsInVisitOrder

\* C9 witness: three files of one ticker listed latest first, the one in
\* the middle dropped, the other two kept in that order.
C9_Witness ==
    /\ apc = "parsed"
    /\ Len(listing) = 1
    /\ Len(listing[1].files) = 3
    /\ Len(df) = 2
    /\ df[1].Date = listing[1].files[1]
    /\ df[2].Date = listing[1].files[3]
    /\ df[1].Unix > df[2].Unix

\* The held-out rows predicted positive.
Positive == { i \in 1..Len(y_pred) : y_pred[i] }

\* C2: when no held-out row is predicted positive, backtest() gets through
\* calculate_returns and ends normally, with a report of no trades.
C2_NoTradesIsReported ==
    (script = "backtesting" /\ bpc \in {"done", "crashed"} /\ Len(calls) = 5 /\ Positive = {}) =>
        /\ bpc = "done"
        /\ report.num_positive_predictions = Frac(0, 1)

\* C3: a row is labelled an outperformer exactly when its stock change
\* less its benchmark change is at least 10 points: in the backtest (each
\* held-out label against that row's returns) and in build_data_set (each
\* label against its row); 20 against 5 is true, 12 against 5 false, 15
\* against 5, a difference of exactly 10, true.
C3_LabelIsThreshold ==
    /\ (script = "backtesting" /\ bpc \in {"split", "trained", "evaluated", "done"}) =>
          /\ Len(y_test) = Len(z_test)
          /\ \A k \in 1..Len(z_test) :
                /\ y_test[k] <=> (z_test[k][1] - z_test[k][2] >= 1000)
                /\ z_test[k] = << 2000, 500 >> => y_test[k]
                /\ z_test[k] = << 1200, 500 >> => ~y_test[k]
                /\ z_test[k] = << 1500, 500 >> => y_test[k]
    /\ (script = "stock_prediction" /\ bpc = "built") =>
          /\ Len(y_train) = Len(data_df)
          /\ \A i \in 1..Len(data_df) :
                y_train[i] <=> (data_df[i].stock_p_change - data_df[i].SP500_p_change >= 1000)

\* C3 witness: the held-out row is 15 against 5 and labelled true, after a
\* split of a file that also holds a row of 12 against 5.
C3_Witness ==
    /\ script = "backtesting"
    /\ bpc = "split"
    /\ z_test = << << 1500, 500 >> >>
    /\ y_test = << TRUE >>
    /\ \E i \in 1..Len(data_df) : data_df[i] = KeystatsRow(1200, 500, TRUE)
    /\ FALSE \in { y_train[i] : i \in 1..Len(y_train) }

\* C4: whatever the text, and also when the file cannot be read, the
\* extractor returns one entry per field name, no more and no fewer.
C4_OneEntryPerField ==
    /\ epc = "parse_html_file" => Len(value_list) = Len(features)
    /\ epc = "parse_html" => Len(value_list) = Len(forward_features)

\* C4 witness: a readable text in which one field is read through the
\* alternate label, one through its own label, and the others are missing.
C4_Witness ==
    /\ epc = "parse_html_file"
    /\ readable
    /\ Search(AvgVol, StripCommas(raw_text), TRUE) = NoMatch
    /\ ~value_list[33].na
    /\ ~value_list[14].na
    /\ value_list[1] = Missing

RECURSIVE SumPositive(_, _)
SumPositive(k, column) ==
    IF k = 0 THEN 0
    ELSE (IF y_pred[k] THEN z_test[k][column] ELSE 0) + SumPositive(k - 1, column)

\* The fraction is total / (100 * count): the mean of changes given in
\* hundredths of a point, in points.
IsMeanOf(fraction, total, count) == fraction.num * 100 * count = fraction.den * total

\* C7: with at least one positive prediction backtest() ends normally and
\* the report holds the number of positive predictions, the mean stock
\* change and the mean benchmark change over the rows predicted positive
\* and no others, and their difference; rows of +10/+2 and +4/+1 give 7,
\* 1.5 and 5.5.
C7_ReportIsMeanOverPositives ==
    (script = "backtesting" /\ bpc \in {"done", "crashed"} /\ Len(calls) = 5 /\ Positive # {}) =>
        /\ bpc = "done"
        /\ report.num_positive_predictions = Frac(Cardinality(Positive), 1)
        /\ IsMeanOf(report.percentage_stock_returns,
                    SumPositive(Len(y_pred), 1), Cardinality(Positive))
        /\ IsMeanOf(report.percentage_market_returns,
                    SumPositive(Len(y_pred), 2), Cardinality(Positive))
        /\ IsMeanOf(report.total_outperformance,
                    SumPositive(Len(y_pred), 1) - SumPositive(Len(y_pred), 2),
                    Cardinality(Positive))
        /\ (z_test = << << 1000, 200 >>, << 400, 100 >> >> /\ y_pred = << TRUE, TRUE >>) =>
              /\ report.percentage_stock_returns.num = 7 * report.percentage_stock_returns.den
              /\ 2 * report.percentage_market_returns.num
                   = 3 * report.percentage_market_returns.den
              /\ 2 * report.total_outperformance.num = 11 * report.total_outperformance.den

\* C7 witness: the two rows of the example held out and both predicted
\* positive.
C7_Witness ==
    /\ script = "backtesting"
    /\ bpc = "done"
    /\ z_test = << << 1000, 200 >>, << 400, 100 >> >>
    /\ y_pred = << TRUE, TRUE >>

\* C8: an unreadable or empty input ends the stage with an empty result:
\* preprocess_price_data returns two empty frames when either price file
\* is unreadable or has no complete row, and parse_keystats then assembles
\* nothing; backtest() and build_data_set() return right after load_data,
\* before split_data, train_model or evaluate_model, when keystats.csv is
\* unreadable or has no complete row.
C8_EmptyInputExitsEarly ==
    /\ (apc \in {"preprocessed", "parsed"}
          /\ \/ ~sp500_csv.ok \/ ~stock_csv.ok
             \/ \A d \in Days : sp500_csv.cell[d] # "row"
             \/ \A d \in Days : stock_csv.cell[d] # "row") =>
          /\ sp500_df = EmptyFrame
          /\ stock_df = EmptyFrame
          /\ apc = "parsed" => df = << >>
    /\ (bpc \notin {"idle", "start"}
          /\ \/ ~keystats_csv.ok
             \/ \A i \in 1..Len(keystats_csv.rows) : ~keystats_csv.rows[i].complete) =>
          /\ data_df = << >>
          /\ bpc = "returned"
          /\ calls = << "load_data" >>

\* C8 witness: backtest() has returned on a keystats.csv whose rows all
\* have an empty cell.
C8_Witness ==
    /\ script = "backtesting"
    /\ bpc = "returned"
    /\ keystats_csv.ok
    /\ Len(keystats_csv.rows) > 0

\* The token the extractor finds for field k of a historical snapshot: the
\* one after the field's own label, for the renamed field else the one
\* after the alternate label.
OwnToken(variable) ==
    LET match == Search(variable, StripCommas(raw_text), TRUE)
    IN  IF match # NoMatch THEN match
        ELSE IF variable = AvgVol THEN Search(AverageVolume, StripCommas(raw_text), FALSE)
        ELSE NoMatch

\* Entry e is what token t alone decides: Missing when the token is absent
\* or is no number, else the number it spells.
DecidedBy(e, t) ==
    /\ t.k \in {"nomatch", "na", "nan", "bad"} => e = Missing
    /\ t.k = "num" => e = Number(t.m * Multiplier(t.suf))
    /\ t.k = "gt0" => e = Number(0)

\* C10: in a text that can be read, each entry of the vector is decided by
\* the field's own token: a field whose token is absent or unparseable is
\* Missing, and every field whose token is a number has that number,
\* whatever the other fields are.
C10_MissingFieldAlone ==
    /\ (epc = "parse_html_file" /\ readable) =>
          /\ Len(value_list) = Len(features)
          /\ \A k \in 1..Len(features) : DecidedBy(value_list[k], OwnToken(features[k]))
    /\ (epc = "parse_html" /\ readable) =>
          /\ Len(value_list) = Len(forward_features)
          /\ \A k \in 1..Len(forward_features) :
                DecidedBy(value_list[k], Search(forward_features[k], StripCommas(raw_text), TRUE))

\* C10 witness: Revenue has a token that is no number and is Missing,
\* Market Cap is absent and Missing, and Avg Vol (3 month) has its number.
C10_Witness ==
    /\ epc = "parse_html_file"
    /\ readable
    /\ OwnToken("Revenue").k = "bad"
    /\ value_list[14] = Missing
    /\ OwnToken("Market Cap") = NoMatch
    /\ value_list[1] = Missing
    /\ value_list[33] = Number(15)

\* The place of the renamed field in the vector.
AvgVolIndex == CHOOSE k \in 1..Len(features) : features[k] = AvgVol

\* C11: in parse_html_file, the entry of "Avg Vol (3 month)" is the value
\* of the primary anchor's match whenever the primary pattern matches; when
\* it does not, it is the value of the match of the alternate anchor
\* "Average Volume (3 month)" if that pattern matches, and Missing when
\* neither matches.  A Missing entry of that field means that both
\* patterns failed or that the token of the winning match is itself no
\* number.  Every other field whose primary pattern has no match is
\* Missing, whatever the alternate label is followed by: an entry of
\* another field that is not Missing has a match of its primary pattern.
C11_AlternateAnchorRetry ==
    (epc = "parse_html_file" /\ readable) =>
        LET source == StripCommas(raw_text)
            primary == Search(AvgVol, source, TRUE)
            alternate == Search(AverageVolume, source, FALSE)
            entry == value_list[AvgVolIndex]
        IN  /\ primary # NoMatch => entry = data_string_to_float(primary)
            /\ (primary = NoMatch /\ alternate # NoMatch) =>
                  entry = data_string_to_float(alternate)
            /\ (primary = NoMatch /\ alternate = NoMatch) => entry = Missing
            /\ entry = Missing =>
                  \/ primary = NoMatch /\ alternate = NoMatch
                  \/ primary # NoMatch /\ primary.k \notin {"num", "gt0"}
                  \/ primary = NoMatch /\ alternate.k \notin {"num", "gt0"}
            /\ \A k \in 1..Len(features) :
                  (k # AvgVolIndex /\ value_list[k] # Missing) =>
                      Search(features[k], source, TRUE) # NoMatch

\* C11 witness: the text has only the alternate label, followed by
\* "1,234K"; the field is read through it, and Revenue, whose label is
\* absent, is Missing although a number follows the alternate label.
C11_Witness ==
    /\ epc = "parse_html_file"
    /\ readable
    /\ Search(AvgVol, StripCommas(raw_text), TRUE) = NoMatch
    /\ Search(AverageVolume, StripCommas(raw_text), FALSE).k = "num"
    /\ value_list[AvgVolIndex] = Number(1234000)
    /\ Search("Revenue", StripCommas(raw_text), TRUE) = NoMatch
    /\ value_list[14] = Missing

\* The columns of the dataset that are no fundamentals: the identifiers,
\* the prices and the realized returns.
LeadingColumns ==
    { "Date", "Unix", "Ticker", "Price", "stock_p_change", "SP500", "SP500_p_change" }

\* split_data or build_data_set has selected the feature matrix.
FeaturesSelected ==
    \/ script = "backtesting" /\ \E i \in 1..Len(calls) : calls[i] = "split_data"
    \/ script = "stock_prediction" /\ bpc = "built"

\* C12: when keystats.csv has the column layout of df_columns, the feature
\* matrix that split_data and build_data_set select as columns[6:] of the
\* frame loaded with Date as its index has exactly the columns of features,
\* in their order: no realized return, price or identifier is among them.
C12_FeatureMatrixIsFundamentals ==
    (FeaturesSelected /\ keystats_header = df_columns) =>
        /\ X_columns = features
        /\ \A i \in 1..Len(X_columns) : X_columns[i] \notin LeadingColumns
        /\ \A i, j \in 1..Len(X_columns) : X_columns[i] = X_columns[j] => i = j

\* C12 witness: the backtest has fit the forest on rows of a file with the
\* assembler's layout, and the matrix it was fit on begins at Market Cap.
C12_Witness ==
    /\ script = "backtesting"
    /\ bpc = "trained"
    /\ keystats_header = df_columns
    /\ Len(y_train) > 1
    /\ data_df_columns[FirstFeature] = "SP500_p_change"
    /\ X_columns[1] = "Market Cap"
    /\ Len(X_columns) = Len(features)

====
